---- MODULE Spec2Model ----
(***************************************************************************)
(* Model of the call relay engine of isam10/voice-agent:                   *)
(*   src/app.py                      media_stream_handler, its two pumps,   *)
(*                                    execute_tool, cleanup_session         *)
(*   src/services/openai_service.py  the model-stream adapter               *)
(*   src/services/database_service.py the persistence collaborator          *)
(* One asyncio task runs at a time, so every action is the code between    *)
(* two suspension points (an await on a transport or on a collaborator).   *)
(***************************************************************************)
EXTENDS Integers, Sequences, FiniteSets, TLC

\* ------------------------------------------------------------------ bounds
MaxInputs == 3      \* telephony frames plus model events received, over one run
MaxFaults == 1      \* transport operations that raise, over one run
MaxDbOps == 4       \* persistence operations called directly, over one run
MaxPhoneLen == 11   \* characters of a phone number text
MaxClock == 1       \* clock seconds that pass, over one run
MaxRetries == 4     \* largest max_retries handed to retry_with_backoff

\* ------------------------------------------------------------------ values
NoneVal == "None"                  \* Python's None
Conns == {"w1", "w2"}              \* media-stream connections (one handler each)
RelayConns == {"w1"}               \* the connections Spec runs
CallIds == {"CA1", "CA2"}
StreamOf(c) == IF c = "CA1" THEN "MZ1" ELSE "MZ2"
DeclaredTools == {"lookup_order", "transfer_to_human",
                  "check_product_availability", "create_ticket"}

\* dict helpers: a Python dict is a function whose DOMAIN is its key set
EmptyDict == [k \in {} |-> NoneVal]
DictPut(d, k, v) == [x \in (DOMAIN d) \cup {k} |-> IF x = k THEN v ELSE d[x]]
DictDel(d, k) == [x \in (DOMAIN d) \ {k} |-> d[x]]
\* (mutant) dict.get that ignores its default
DictGet_NoDefault(d, k, default) == IF k \in DOMAIN d THEN d[k] ELSE NoneVal
DictGet(d, k, default) == IF k \in DOMAIN d THEN d[k] ELSE default

\* ------------------------------------------------------------------ inputs
\* Telephony frames as the text Twilio sends; "bad" is text json.loads rejects.
StartFrame(c) == [event |-> "start", callSid |-> c, streamSid |-> StreamOf(c),
                  from |-> "+919876543210", payload |-> ""]
MediaFrame(p) == [event |-> "media", callSid |-> NoneVal, streamSid |-> NoneVal,
                  from |-> "", payload |-> p]
PlainFrame(k) == [event |-> k, callSid |-> NoneVal, streamSid |-> NoneVal,
                  from |-> "", payload |-> ""]
Frames == {StartFrame("CA1"), MediaFrame("AAA="), MediaFrame("BBB="), MediaFrame(""),
           PlainFrame("stop"), PlainFrame("bad")}

\* The arguments text of a tool call: valid JSON for an object, valid JSON for
\* something else, or text that is not JSON.
ArgsObject(d) == [json |-> "object", value |-> d]
ArgsNonDict == [json |-> "array", value |-> EmptyDict]
ArgsInvalid == [json |-> "invalid", value |-> EmptyDict]

\* json.loads on an arguments text: the parsed value, or JSONDecodeError.
json_loads(text) ==
    IF text.json = "invalid"
    THEN [ok |-> FALSE, isdict |-> FALSE, value |-> EmptyDict]
    ELSE [ok |-> TRUE, isdict |-> (text.json = "object"), value |-> text.value]

\* Model events; a tool-call event gets its call_id from the model, one per event.
AudioDelta(d) == [type |-> "response.audio.delta", delta |-> d]
ItemCreated(i) == [type |-> "conversation.item.created", item |-> i]
PlainEvent(t) == [type |-> t]
ToolCall(n, a) == [type |-> "response.function_call_arguments.done",
                   name |-> n, arguments |-> a]
WithCallId(e, id) ==
    IF e.type = "response.function_call_arguments.done"
    THEN [type |-> e.type, name |-> e.name, arguments |-> e.arguments, call_id |-> id]
    ELSE e

OrderArgs == [order_id |-> "ORD1"]
TicketArgs == [issue_type |-> "billing", description |-> "late"]
ToolCalls == {ToolCall("lookup_order", ArgsObject(OrderArgs)),
              ToolCall("create_ticket", ArgsObject(TicketArgs)),
              ToolCall("lookup_order", ArgsInvalid),
              ToolCall("reset_router", ArgsObject(EmptyDict))}
Events == ToolCalls \cup {AudioDelta("D1"), PlainEvent("response.done")}

\* An f-string or str(e): the fixed text and the value formatted into it.
Str(text, x) == <<text, x>>

\* Outcomes of one persistence operation / of one transport operation.
DbOutcomes == {"ok", "raise"}
DbFailure == "db failure"
SendFailure == "send failed"
AttributeFailure == "object has no attribute get"

\* Commands written to the model stream.
SessionUpdate == [type |-> "session.update"]
GreetingCreate == [type |-> "response.create", greeting |-> TRUE]
ResumeCreate == [type |-> "response.create", greeting |-> FALSE]
AudioAppend(p) == [type |-> "input_audio_buffer.append", audio |-> p]
FunctionOutput(id, result) ==
    [type |-> "conversation.item.create", call_id |-> id, output |-> result]

\* ------------------------------------------------------------ persistence
\* DatabaseService on its in-memory caches. A logged operation carries what the
\* collaborator did: "ok", or "raise" (the except branch of the method).
DbOp(op, c, outcome) == [op |-> op, call_sid |-> c, outcome |-> outcome]

get_order_details(order_id) ==
    [order_id |-> order_id, status |-> "Delivered", total |-> "2500"]

check_inventory(product_name, pincode) ==
    [product |-> product_name, available |-> TRUE,
     delivery_estimate |-> IF pincode # NoneVal THEN "2-3 business days"
                                                ELSE "3-5 business days"]

\* ticket ids are a prefix and the clock second (strftime('%Y%m%d%H%M%S'))
create_transfer_request(c, reason, context, priority, clock) ==
    [ticket_id |-> <<"TXF", clock>>, call_sid |-> c, reason |-> reason,
     context |-> context, priority |-> priority, status |-> "queued"]

create_support_ticket(c, issue_type, description, customer_phone, priority, clock) ==
    [ticket_id |-> <<"SUP", clock>>, call_sid |-> c, issue_type |-> issue_type,
     description |-> description, customer_phone |-> customer_phone,
     priority |-> priority, status |-> "open"]

\* ---------------------------------------------------------- execute_tool
\* What a run of execute_tool comes to: the mapping it returns, the persistence
\* operations it invoked, the tickets cache it leaves, and, when an exception
\* is raised, that it was raised and str(e).
ToolReturn(result, ops, tickets) ==
    [raised |-> FALSE, reason |-> "", result |-> result, ops |-> ops,
     tickets |-> tickets]

ToolRaise(reason, ops, tickets) ==
    [raised |-> TRUE, reason |-> reason, result |-> EmptyDict, ops |-> ops,
     tickets |-> tickets]

\* (mutant) the name is looked up in a dispatch table and the KeyError of an
\* unknown name is left to the except clause
UnknownFunction_KeyError(function_name, tickets) ==
    ToolRaise("KeyError", <<>>, tickets)

\* the final else: a function name that is none of the declared tools
UnknownFunction(function_name, tickets) ==
    ToolReturn([error |-> Str("Unknown function: ", function_name),
                message |-> "I'm sorry, I couldn't process that request."],
               <<>>, tickets)

\* The body of the try block. `a` is the parsed arguments value, `outcome`
\* what the persistence operation does if one is invoked.
execute_tool_try(function_name, a, c, outcome, tickets, clock) ==
    LET get(k, default) == DictGet(a.value, k, default)
        op(name) == <<DbOp(name, c, outcome)>>
    IN  IF function_name \in DeclaredTools /\ ~a.isdict
        THEN \* arguments.get raises AttributeError
             ToolRaise(AttributeFailure, <<>>, tickets)
        ELSE IF function_name = "lookup_order"
        THEN IF outcome = "raise"
             THEN ToolRaise(DbFailure, op("get_order_details"), tickets)
             ELSE ToolReturn(get_order_details(get("order_id", NoneVal)),
                             op("get_order_details"), tickets)
        ELSE IF function_name = "transfer_to_human"
        THEN IF outcome = "raise"
             THEN ToolRaise(DbFailure, op("create_transfer_request"), tickets)
             ELSE LET t == create_transfer_request(c, get("reason", NoneVal),
                               get("customer_context", NoneVal),
                               get("priority", "medium"), clock)
                  IN  ToolReturn([status |-> "transfer_initiated",
                                  ticket_id |-> t.ticket_id,
                                  estimated_wait_time |-> "2-3 minutes"],
                                 op("create_transfer_request"),
                                 DictPut(tickets, t.ticket_id, t))
        ELSE IF function_name = "check_product_availability"
        THEN IF outcome = "raise"
             THEN ToolRaise(DbFailure, op("check_inventory"), tickets)
             ELSE ToolReturn(check_inventory(get("product_name", NoneVal),
                                             get("pincode", NoneVal)),
                             op("check_inventory"), tickets)
        ELSE IF function_name = "create_ticket"
        THEN IF outcome = "raise"
             THEN ToolRaise(DbFailure, op("create_support_ticket"), tickets)
             ELSE LET t == create_support_ticket(c, get("issue_type", NoneVal),
                               get("description", NoneVal),
                               get("customer_phone", NoneVal),
                               get("priority", "medium"), clock)
                  IN  ToolReturn([status |-> "ticket_created",
                                  ticket_id |-> t.ticket_id],
                                 op("create_support_ticket"),
                                 DictPut(tickets, t.ticket_id, t))
        ELSE UnknownFunction(function_name, tickets)

\* the except clause: any exception of the body becomes an error mapping
ErrorResult(reason) ==
    [error |-> Str(reason, ""),
     message |-> "I encountered an error while processing your request."]

\* (mutant) execute_tool without its except clause
execute_tool_NoExcept(function_name, a, c, outcome, tickets, clock) ==
    execute_tool_try(function_name, a, c, outcome, tickets, clock)

execute_tool(function_name, a, c, outcome, tickets, clock) ==
    LET r == execute_tool_try(function_name, a, c, outcome, tickets, clock)
    IN  IF r.raised
        THEN ToolReturn(ErrorResult(r.reason), r.ops, r.tickets)
        ELSE r

\* ------------------------------------------------------------------ state
VARIABLES
    hpc,                 \* per connection: where media_stream_handler is
    call_sid,            \* per connection: the handler's call_sid
    stream_sid,          \* per connection: the handler's stream_sid
    openai_ws,           \* per connection: TRUE once openai_ws is assigned
    tpc,                 \* per connection: twilio_to_openai
    mpc,                 \* per connection: openai_to_twilio
    cur,                 \* per connection: the tool call openai_to_twilio is in
    dispatched,          \* per connection: call_ids execute_tool was invoked for
    tFrames,             \* per connection: telephony frames consumed so far
    mEvents,             \* per connection: model events consumed so far
    sent,                \* per connection: commands written to the model stream
    twOut,               \* per connection: frames written to telephony
    cleanups,            \* per connection: times the finally block has run
    active_sessions,     \* app.active_sessions
    active_connections,  \* OpenAIService.active_connections (session ids)
    closed_connections,  \* model connections whose close() was called
    accounted,           \* call ids whose duration/cost was computed, in order
    calls_cache,         \* DatabaseService.calls_cache
    conversations_cache, \* DatabaseService.conversations_cache
    tickets_cache,       \* DatabaseService.tickets_cache
    dbLog,               \* persistence operations invoked, in order
    now,                 \* the clock second
    faults,              \* transport operations that raised so far
    phone,               \* the text handed to sanitize_phone_number
    ret,                 \* what the last direct call of a collaborator returned
    shutdown,            \* TRUE once the lifespan's shutdown loop has run
    retry                \* the retry_with_backoff wrapper call in progress

connVars == <<hpc, call_sid, stream_sid, openai_ws, tpc, mpc, cur, dispatched,
              tFrames, mEvents, sent, twOut, cleanups>>
appVars == <<active_sessions, active_connections, closed_connections, accounted>>
dbVars == <<calls_cache, conversations_cache, tickets_cache, dbLog>>
procVars == <<shutdown, retry>>
callerVars == <<phone, ret, procVars>>
vars == <<connVars, appVars, dbVars, now, faults, callerVars>>

NoCall == [call_id |-> 0, name |-> NoneVal, branch |-> NoneVal]
NoReturn == [op |-> NoneVal]
NoRetry == [status |-> "idle", max_retries |-> 0, base_delay |-> 0, attempt |-> 0,
            calls |-> 0, errors |-> <<>>, sleeps |-> <<>>, result |-> NoneVal]

Init ==
    /\ hpc = [w \in Conns |-> "create"]
    /\ call_sid = [w \in Conns |-> NoneVal]
    /\ stream_sid = [w \in Conns |-> NoneVal]
    /\ openai_ws = [w \in Conns |-> FALSE]
    /\ tpc = [w \in Conns |-> "init"]
    /\ mpc = [w \in Conns |-> "init"]
    /\ cur = [w \in Conns |-> NoCall]
    /\ dispatched = [w \in Conns |-> <<>>]
    /\ tFrames = [w \in Conns |-> <<>>]
    /\ mEvents = [w \in Conns |-> <<>>]
    /\ sent = [w \in Conns |-> <<>>]
    /\ twOut = [w \in Conns |-> <<>>]
    /\ cleanups = [w \in Conns |-> 0]
    /\ active_sessions = EmptyDict
    /\ active_connections = {}
    /\ closed_connections = {}
    /\ accounted = <<>>
    /\ calls_cache = EmptyDict
    /\ conversations_cache = EmptyDict
    /\ tickets_cache = EmptyDict
    /\ dbLog = <<>>
    /\ now = 0
    /\ faults = 0
    /\ phone = <<>>
    /\ ret = NoReturn
    /\ shutdown = FALSE
    /\ retry = NoRetry

\* frames and events received so far, over all connections
Received ==
    Len(tFrames["w1"]) + Len(mEvents["w1"]) + Len(tFrames["w2"]) + Len(mEvents["w2"])

\* A transport operation may raise; the run's budget of such faults is bounded.
MayFail == faults < MaxFaults

TEnded(w) == tpc[w] \in {"stopped", "disconnected", "failed", "cancelled"}
MEnded(w) == mpc[w] \in {"closed", "failed", "cancelled"}

\* ---------------------------------------------------------------- handler
\* create_session: connect, record the connection, send session.update.
\* A failure raises into the handler's except/finally with openai_ws unset.
CreateSessionOk(w) ==
    /\ hpc[w] = "create"
    /\ active_connections' = active_connections \cup {w}
    /\ sent' = [sent EXCEPT ![w] = Append(@, SessionUpdate)]
    /\ openai_ws' = [openai_ws EXCEPT ![w] = TRUE]
    /\ hpc' = [hpc EXCEPT ![w] = "greet"]
    /\ UNCHANGED <<call_sid, stream_sid, tpc, mpc, cur, dispatched, tFrames, mEvents, twOut,
                   cleanups, active_sessions, closed_connections, accounted,
                   dbVars, now, faults, callerVars>>

CreateSessionConnectFails(w) ==
    /\ hpc[w] = "create"
    /\ MayFail
    /\ faults' = faults + 1
    /\ hpc' = [hpc EXCEPT ![w] = "finally"]
    /\ UNCHANGED <<call_sid, stream_sid, openai_ws, tpc, mpc, cur, dispatched, tFrames, mEvents,
                   sent, twOut, cleanups, appVars, dbVars, now, callerVars>>

CreateSessionConfigureFails(w) ==
    /\ hpc[w] = "create"
    /\ MayFail
    /\ faults' = faults + 1
    /\ active_connections' = active_connections \cup {w}
    /\ hpc' = [hpc EXCEPT ![w] = "finally"]
    /\ UNCHANGED <<call_sid, stream_sid, openai_ws, tpc, mpc, cur, dispatched, tFrames, mEvents,
                   sent, twOut, cleanups, active_sessions, closed_connections,
                   accounted, dbVars, now, callerVars>>

\* (mutant) the pumps are started without the greeting request
SendGreetingOk_NoGreeting(w) ==
    /\ hpc[w] = "greet"
    /\ hpc' = [hpc EXCEPT ![w] = "gather"]
    /\ tpc' = [tpc EXCEPT ![w] = "recv"]
    /\ mpc' = [mpc EXCEPT ![w] = "recv"]
    /\ UNCHANGED <<call_sid, stream_sid, openai_ws, cur, dispatched, tFrames, mEvents, sent,
                   twOut, cleanups, appVars, dbVars, now, faults, callerVars>>

\* send_initial_greeting, then both pumps are handed to asyncio.gather.
SendGreetingOk(w) ==
    /\ hpc[w] = "greet"
    /\ sent' = [sent EXCEPT ![w] = Append(@, GreetingCreate)]
    /\ hpc' = [hpc EXCEPT ![w] = "gather"]
    /\ tpc' = [tpc EXCEPT ![w] = "recv"]
    /\ mpc' = [mpc EXCEPT ![w] = "recv"]
    /\ UNCHANGED <<call_sid, stream_sid, openai_ws, cur, dispatched, tFrames, mEvents, twOut,
                   cleanups, appVars, dbVars, now, faults, callerVars>>

\* (mutant) a handler that swallows the greeting's failure and starts the pumps
SendGreetingFails_Swallowed(w) ==
    /\ hpc[w] = "greet"
    /\ MayFail
    /\ faults' = faults + 1
    /\ hpc' = [hpc EXCEPT ![w] = "gather"]
    /\ tpc' = [tpc EXCEPT ![w] = "recv"]
    /\ mpc' = [mpc EXCEPT ![w] = "recv"]
    /\ UNCHANGED <<call_sid, stream_sid, openai_ws, cur, dispatched, tFrames, mEvents,
                   sent, twOut, cleanups, appVars, dbVars, now, callerVars>>

\* send_initial_greeting raises: the handler's except logs, then the finally
SendGreetingFails(w) ==
    /\ hpc[w] = "greet"
    /\ MayFail
    /\ faults' = faults + 1
    /\ hpc' = [hpc EXCEPT ![w] = "finally"]
    /\ UNCHANGED <<call_sid, stream_sid, openai_ws, tpc, mpc, cur, dispatched, tFrames, mEvents,
                   sent, twOut, cleanups, appVars, dbVars, now, callerVars>>

\* asyncio.gather(..., return_exceptions=True) returns when BOTH pumps have
\* finished; it cancels nothing when the first one finishes.
GatherReturns(w) ==
    /\ hpc[w] = "gather"
    /\ TEnded(w)
    /\ MEnded(w)
    /\ hpc' = [hpc EXCEPT ![w] = "finally"]
    /\ UNCHANGED <<call_sid, stream_sid, openai_ws, tpc, mpc, cur, dispatched, tFrames, mEvents,
                   sent, twOut, cleanups, appVars, dbVars, now, faults, callerVars>>

\* The handler task itself is cancelled while it awaits gather: gather
\* cancels the pumps still running and CancelledError reaches the finally.
HandlerCancelled(w) ==
    /\ hpc[w] = "gather"
    /\ tpc' = [tpc EXCEPT ![w] = IF TEnded(w) THEN @ ELSE "cancelled"]
    /\ mpc' = [mpc EXCEPT ![w] = IF MEnded(w) THEN @ ELSE "cancelled"]
    /\ hpc' = [hpc EXCEPT ![w] = "finally"]
    /\ UNCHANGED <<call_sid, stream_sid, openai_ws, cur, dispatched, tFrames, mEvents,
                   sent, twOut, cleanups, appVars, dbVars, now, faults, callerVars>>

\* (mutant) cleanup_session that resets the registry when the id is absent
cleanup_sessions_AbsentClears(sessions, id) ==
    IF id \in DOMAIN sessions THEN DictDel(sessions, id) ELSE EmptyDict

\* (mutant) cleanup_session that drops every session, as the shutdown loop does
cleanup_sessions_All(sessions, id) ==
    IF id \in DOMAIN sessions THEN EmptyDict ELSE sessions

\* cleanup_session(id): accounting and removal, only when id is registered.
cleanup_sessions(sessions, id) ==
    IF id \in DOMAIN sessions THEN DictDel(sessions, id) ELSE sessions

\* (mutant) cleanup_session that computes duration and cost for an absent id
cleanup_accounted_Unguarded(sessions, acc, id) ==
    Append(acc, id)

cleanup_accounted(sessions, acc, id) ==
    IF id \in DOMAIN sessions THEN Append(acc, id) ELSE acc

\* The finally block: cleanup_session if call_sid, close_session if openai_ws.
Finally(w) ==
    /\ hpc[w] = "finally"
    /\ IF call_sid[w] # NoneVal
       THEN /\ active_sessions' = cleanup_sessions(active_sessions, call_sid[w])
            /\ accounted' = cleanup_accounted(active_sessions, accounted, call_sid[w])
       ELSE UNCHANGED <<active_sessions, accounted>>
    /\ IF openai_ws[w] /\ w \in active_connections
       THEN /\ closed_connections' = closed_connections \cup {w}
            /\ active_connections' = active_connections \ {w}
       ELSE UNCHANGED <<closed_connections, active_connections>>
    /\ cleanups' = [cleanups EXCEPT ![w] = @ + 1]
    /\ hpc' = [hpc EXCEPT ![w] = "closed"]
    /\ UNCHANGED <<call_sid, stream_sid, openai_ws, tpc, mpc, cur, dispatched, tFrames, mEvents,
                   sent, twOut, dbVars, now, faults, callerVars>>

\* --------------------------------------------------------- twilio_to_openai
\* (mutant) a relay that reads the next frame only while the model pump is idle
TwilioReady_WaitsForModel(w, f) ==
    /\ hpc[w] = "gather"
    /\ tpc[w] = "recv"
    /\ mpc[w] = "recv"
    /\ Received < MaxInputs
    /\ tFrames' = [tFrames EXCEPT ![w] = Append(@, f)]

\* One iteration of `async for message in websocket.iter_text()`, for frame f.
TwilioReady(w, f) ==
    /\ hpc[w] = "gather"
    /\ tpc[w] = "recv"
    /\ Received < MaxInputs
    /\ tFrames' = [tFrames EXCEPT ![w] = Append(@, f)]

\* create_call_record / end_call_record on calls_cache
create_call_record(cache, c, f) ==
    DictPut(cache, c, [call_sid |-> c, status |-> "in-progress", ended |-> FALSE,
                       stream_sid |-> f.streamSid])

\* (mutant) end_call_record that stores a completed record for an unknown call
end_call_record_Upserts(cache, c) ==
    IF c \in DOMAIN cache
    THEN [cache EXCEPT ![c] = [@ EXCEPT !.status = "completed", !.ended = TRUE]]
    ELSE DictPut(cache, c, [call_sid |-> c, status |-> "completed", ended |-> TRUE,
                            stream_sid |-> NoneVal])

end_call_record(cache, c) ==
    IF c \in DOMAIN cache
    THEN [cache EXCEPT ![c] = [@ EXCEPT !.status = "completed", !.ended = TRUE]]
    ELSE cache

\* (mutant) start registers the session but does not notify the persistence
TwilioStart_NoRecord(w, f) ==
    /\ f.event = "start"
    /\ TwilioReady(w, f)
    /\ call_sid' = [call_sid EXCEPT ![w] = f.callSid]
    /\ stream_sid' = [stream_sid EXCEPT ![w] = f.streamSid]
    /\ active_sessions' = DictPut(active_sessions, f.callSid,
            [call_sid |-> f.callSid, stream_sid |-> f.streamSid,
             openai_session_id |-> w, from_number |-> f.from])
    /\ UNCHANGED <<hpc, openai_ws, tpc, mpc, cur, dispatched, mEvents, sent, twOut, cleanups,
                   active_connections, closed_connections, accounted,
                   dbVars, now, faults, callerVars>>

\* (mutant) the session record stored under the model session id
TwilioStart_KeyedBySession(w, f) ==
    /\ f.event = "start"
    /\ TwilioReady(w, f)
    /\ call_sid' = [call_sid EXCEPT ![w] = f.callSid]
    /\ stream_sid' = [stream_sid EXCEPT ![w] = f.streamSid]
    /\ active_sessions' = DictPut(active_sessions, w,
            [call_sid |-> f.callSid, stream_sid |-> f.streamSid,
             openai_session_id |-> w, from_number |-> f.from])
    /\ calls_cache' = create_call_record(calls_cache, f.callSid, f)
    /\ dbLog' = Append(dbLog, DbOp("create_call_record", f.callSid, "ok"))
    /\ UNCHANGED <<hpc, openai_ws, tpc, mpc, cur, dispatched, mEvents, sent, twOut, cleanups,
                   active_connections, closed_connections, accounted,
                   conversations_cache, tickets_cache, now, faults, callerVars>>

\* start: call_sid and stream_sid are set, the session record is stored under
\* call_sid (replacing any record already there), create_call_record is awaited
TwilioStart(w, f) ==
    /\ f.event = "start"
    /\ TwilioReady(w, f)
    /\ call_sid' = [call_sid EXCEPT ![w] = f.callSid]
    /\ stream_sid' = [stream_sid EXCEPT ![w] = f.streamSid]
    /\ active_sessions' = DictPut(active_sessions, f.callSid,
            [call_sid |-> f.callSid, stream_sid |-> f.streamSid,
             openai_session_id |-> w, from_number |-> f.from])
    /\ calls_cache' = create_call_record(calls_cache, f.callSid, f)
    /\ dbLog' = Append(dbLog, DbOp("create_call_record", f.callSid, "ok"))
    /\ UNCHANGED <<hpc, openai_ws, tpc, mpc, cur, dispatched, mEvents, sent, twOut, cleanups,
                   active_connections, closed_connections, accounted,
                   conversations_cache, tickets_cache, now, faults, callerVars>>

\* (mutant) media forwarded without the `if audio_payload` guard
TwilioMedia_Unguarded(w, f) ==
    /\ f.event = "media"
    /\ TwilioReady(w, f)
    /\ sent' = [sent EXCEPT ![w] = Append(@, AudioAppend(f.payload))]
    /\ UNCHANGED <<hpc, call_sid, stream_sid, openai_ws, tpc, mpc, cur, dispatched,
                   mEvents, twOut, cleanups, appVars, dbVars, now, faults, callerVars>>

\* media: forwarded when the payload is non-empty and openai_ws is set
TwilioMedia(w, f) ==
    /\ f.event = "media"
    /\ TwilioReady(w, f)
    /\ sent' = [sent EXCEPT ![w] =
                    IF f.payload # "" /\ openai_ws[w]
                    THEN Append(@, AudioAppend(f.payload)) ELSE @]
    /\ UNCHANGED <<hpc, call_sid, stream_sid, openai_ws, tpc, mpc, cur, dispatched, mEvents,
                   twOut, cleanups, appVars, dbVars, now, faults, callerVars>>

\* send_audio raises: the exception ends the pump in its except Exception
TwilioMediaSendFails(w, f) ==
    /\ f.event = "media"
    /\ f.payload # "" /\ openai_ws[w]
    /\ MayFail
    /\ TwilioReady(w, f)
    /\ faults' = faults + 1
    /\ tpc' = [tpc EXCEPT ![w] = "failed"]
    /\ UNCHANGED <<hpc, call_sid, stream_sid, openai_ws, mpc, cur, dispatched, mEvents,
                   sent, twOut, cleanups, appVars, dbVars, now, callerVars>>

\* mark, and any other event kind: nothing but logging
TwilioMark(w, f) ==
    /\ f.event \notin {"start", "media", "stop", "bad"}
    /\ TwilioReady(w, f)
    /\ UNCHANGED <<hpc, call_sid, stream_sid, openai_ws, tpc, mpc, cur, dispatched, mEvents,
                   sent, twOut, cleanups, appVars, dbVars, now, faults, callerVars>>

\* (mutant) stop without its break: the pump goes on reading frames
TwilioStop_Continues(w, f) ==
    /\ f.event = "stop"
    /\ TwilioReady(w, f)
    /\ IF call_sid[w] # NoneVal
       THEN /\ calls_cache' = end_call_record(calls_cache, call_sid[w])
            /\ dbLog' = Append(dbLog, DbOp("end_call_record", call_sid[w], "ok"))
       ELSE UNCHANGED <<calls_cache, dbLog>>
    /\ UNCHANGED <<hpc, call_sid, stream_sid, openai_ws, tpc, mpc, cur, dispatched, mEvents,
                   sent, twOut, cleanups, appVars, conversations_cache,
                   tickets_cache, now, faults, callerVars>>

\* stop: end_call_record if call_sid, then break
TwilioStop(w, f) ==
    /\ f.event = "stop"
    /\ TwilioReady(w, f)
    /\ IF call_sid[w] # NoneVal
       THEN /\ calls_cache' = end_call_record(calls_cache, call_sid[w])
            /\ dbLog' = Append(dbLog, DbOp("end_call_record", call_sid[w], "ok"))
       ELSE UNCHANGED <<calls_cache, dbLog>>
    /\ tpc' = [tpc EXCEPT ![w] = "stopped"]
    /\ UNCHANGED <<hpc, call_sid, stream_sid, openai_ws, mpc, cur, dispatched, mEvents,
                   sent, twOut, cleanups, appVars, conversations_cache,
                   tickets_cache, now, faults, callerVars>>

\* (mutant) the pump without its except Exception: the decode error leaves
\* the pump and reaches the handler
TwilioBadFrame_Escapes(w, f) ==
    /\ f.event = "bad"
    /\ TwilioReady(w, f)
    /\ tpc' = [tpc EXCEPT ![w] = "failed"]
    /\ hpc' = [hpc EXCEPT ![w] = "finally"]
    /\ UNCHANGED <<call_sid, stream_sid, openai_ws, mpc, cur, dispatched, mEvents,
                   sent, twOut, cleanups, appVars, dbVars, now, faults, callerVars>>

\* json.loads(message) raises inside the try that wraps the whole loop
TwilioBadFrame(w, f) ==
    /\ f.event = "bad"
    /\ TwilioReady(w, f)
    /\ tpc' = [tpc EXCEPT ![w] = "failed"]
    /\ UNCHANGED <<hpc, call_sid, stream_sid, openai_ws, mpc, cur, dispatched, mEvents,
                   sent, twOut, cleanups, appVars, dbVars, now, faults, callerVars>>

\* the telephony socket closes: iter_text ends / WebSocketDisconnect
TwilioDisconnect(w) ==
    /\ hpc[w] = "gather"
    /\ tpc[w] = "recv"
    /\ tpc' = [tpc EXCEPT ![w] = "disconnected"]
    /\ UNCHANGED <<hpc, call_sid, stream_sid, openai_ws, mpc, cur, dispatched, tFrames, mEvents,
                   sent, twOut, cleanups, appVars, dbVars, now, faults, callerVars>>

\* --------------------------------------------------------- openai_to_twilio
\* One iteration of `async for event in openai_ws`, for event e.
ModelReady(w, e) ==
    /\ hpc[w] = "gather"
    /\ mpc[w] = "recv"
    /\ Received < MaxInputs
    /\ mEvents' = [mEvents EXCEPT ![w] = Append(@, WithCallId(e, Len(@) + 1))]

\* json.dumps of a result mapping: the text of a JSON object
json_dumps(result) == ArgsObject(result)

InvalidArguments == [error |-> Str("Invalid arguments", "")]

\* (mutant) audio forwarded without the stream_sid test
ModelAudioDelta_Unguarded(w, e) ==
    /\ e.type = "response.audio.delta"
    /\ ModelReady(w, e)
    /\ twOut' = [twOut EXCEPT ![w] =
                    IF e.delta # ""
                    THEN Append(@, [event |-> "media", streamSid |-> stream_sid[w],
                                    payload |-> e.delta])
                    ELSE @]
    /\ UNCHANGED <<hpc, call_sid, stream_sid, openai_ws, tpc, mpc, cur, dispatched, tFrames,
                   sent, cleanups, appVars, dbVars, now, faults, callerVars>>

\* response.audio.delta: one outbound media frame when stream_sid and delta
ModelAudioDelta(w, e) ==
    /\ e.type = "response.audio.delta"
    /\ ModelReady(w, e)
    /\ twOut' = [twOut EXCEPT ![w] =
                    IF stream_sid[w] # NoneVal /\ e.delta # ""
                    THEN Append(@, [event |-> "media", streamSid |-> stream_sid[w],
                                    payload |-> e.delta])
                    ELSE @]
    /\ UNCHANGED <<hpc, call_sid, stream_sid, openai_ws, tpc, mpc, cur, dispatched, tFrames,
                   sent, cleanups, appVars, dbVars, now, faults, callerVars>>

\* conversation.item.created: log_conversation when call_sid is set
ModelItemCreated(w, e) ==
    /\ e.type = "conversation.item.created"
    /\ ModelReady(w, e)
    /\ IF call_sid[w] # NoneVal
       THEN /\ conversations_cache' =
                   DictPut(conversations_cache, call_sid[w],
                           Append(DictGet(conversations_cache, call_sid[w], <<>>),
                                  [call_sid |-> call_sid[w], item_id |-> e.item]))
            /\ dbLog' = Append(dbLog, DbOp("log_conversation", call_sid[w], "ok"))
       ELSE UNCHANGED <<conversations_cache, dbLog>>
    /\ UNCHANGED <<hpc, call_sid, stream_sid, openai_ws, tpc, mpc, cur, dispatched, tFrames,
                   sent, twOut, cleanups, appVars, calls_cache, tickets_cache,
                   now, faults, callerVars>>

\* (mutant) a JSONDecodeError is only logged: no result is sent
ModelToolCall_DropsInvalid(w, e) ==
    /\ e.type = "response.function_call_arguments.done"
    /\ ModelReady(w, e)
    /\ LET id == Len(mEvents[w]) + 1
           parsed == json_loads(e.arguments)
       IN  IF parsed.ok
           THEN /\ cur' = [cur EXCEPT ![w] = [call_id |-> id, name |-> e.name,
                                              branch |-> "try", args |-> parsed]]
                /\ mpc' = [mpc EXCEPT ![w] = "dispatch"]
           ELSE UNCHANGED <<cur, mpc>>
    /\ UNCHANGED <<hpc, call_sid, stream_sid, openai_ws, tpc, dispatched, tFrames,
                   sent, twOut, cleanups, appVars, dbVars, now, faults, callerVars>>

\* (mutant) json.loads(arguments) outside the inner try: a JSONDecodeError
\* reaches the pump's outer except and ends the pump
ModelToolCall_DecodeEscapes(w, e) ==
    /\ e.type = "response.function_call_arguments.done"
    /\ ModelReady(w, e)
    /\ LET id == Len(mEvents[w]) + 1
           parsed == json_loads(e.arguments)
       IN  IF parsed.ok
           THEN /\ cur' = [cur EXCEPT ![w] = [call_id |-> id, name |-> e.name,
                                              branch |-> "try", args |-> parsed]]
                /\ mpc' = [mpc EXCEPT ![w] = "dispatch"]
           ELSE /\ mpc' = [mpc EXCEPT ![w] = "failed"]
                /\ UNCHANGED cur
    /\ UNCHANGED <<hpc, call_sid, stream_sid, openai_ws, tpc, dispatched, tFrames,
                   sent, twOut, cleanups, appVars, dbVars, now, faults, callerVars>>

\* response.function_call_arguments.done: json.loads(arguments); on
\* JSONDecodeError the except branch sends {"error": "Invalid arguments"}
ModelToolCall(w, e) ==
    /\ e.type = "response.function_call_arguments.done"
    /\ ModelReady(w, e)
    /\ LET id == Len(mEvents[w]) + 1
           parsed == json_loads(e.arguments)
       IN  IF parsed.ok
           THEN /\ cur' = [cur EXCEPT ![w] = [call_id |-> id, name |-> e.name,
                                              branch |-> "try", args |-> parsed]]
                /\ mpc' = [mpc EXCEPT ![w] = "dispatch"]
           ELSE /\ cur' = [cur EXCEPT ![w] = [call_id |-> id, name |-> e.name,
                                              branch |-> "decode",
                                              result |-> InvalidArguments]]
                /\ mpc' = [mpc EXCEPT ![w] = "item"]
    /\ UNCHANGED <<hpc, call_sid, stream_sid, openai_ws, tpc, dispatched, tFrames,
                   sent, twOut, cleanups, appVars, dbVars, now, faults, callerVars>>

\* (mutant) an error event of the model treated as fatal to the pump
ModelOtherEvent_ErrorEndsPump(w, e) ==
    /\ e.type \notin {"response.audio.delta", "conversation.item.created",
                      "response.function_call_arguments.done"}
    /\ ModelReady(w, e)
    /\ mpc' = [mpc EXCEPT ![w] = IF e.type = "error" THEN "failed" ELSE @]
    /\ UNCHANGED <<hpc, call_sid, stream_sid, openai_ws, tpc, cur, dispatched, tFrames,
                   sent, twOut, cleanups, appVars, dbVars, now, faults, callerVars>>

\* response.audio.done, response.done, error, session.updated, unknown kinds
ModelOtherEvent(w, e) ==
    /\ e.type \notin {"response.audio.delta", "conversation.item.created",
                      "response.function_call_arguments.done"}
    /\ ModelReady(w, e)
    /\ UNCHANGED <<hpc, call_sid, stream_sid, openai_ws, tpc, mpc, cur, dispatched, tFrames,
                   sent, twOut, cleanups, appVars, dbVars, now, faults, callerVars>>

\* result = await execute_tool(function_name, arguments, call_sid)
Dispatch(w, outcome) ==
    /\ hpc[w] = "gather"
    /\ mpc[w] = "dispatch"
    /\ LET r == execute_tool(cur[w].name, cur[w].args, call_sid[w], outcome,
                             tickets_cache, now)
       IN  /\ tickets_cache' = r.tickets
           /\ dbLog' = dbLog \o r.ops
           /\ dispatched' = [dispatched EXCEPT ![w] = Append(@, cur[w].call_id)]
           /\ cur' = [cur EXCEPT ![w] =
                        [call_id |-> @.call_id, name |-> @.name,
                         branch |-> IF r.raised THEN "except" ELSE "try",
                         result |-> r.result]]
    /\ mpc' = [mpc EXCEPT ![w] = "item"]
    /\ UNCHANGED <<hpc, call_sid, stream_sid, openai_ws, tpc, tFrames, mEvents,
                   sent, twOut, cleanups, appVars, calls_cache,
                   conversations_cache, now, faults, callerVars>>

\* (mutant) send_function_result with its two sends in the other order
SendItem_AfterResume(w) ==
    /\ hpc[w] = "gather"
    /\ mpc[w] = "item"
    /\ sent' = [sent EXCEPT ![w] =
                    Append(Append(@, ResumeCreate),
                           FunctionOutput(cur[w].call_id, json_dumps(cur[w].result)))]
    /\ mpc' = [mpc EXCEPT ![w] = "recv"]
    /\ cur' = [cur EXCEPT ![w] = NoCall]
    /\ UNCHANGED <<hpc, call_sid, stream_sid, openai_ws, tpc, dispatched, tFrames,
                   mEvents, twOut, cleanups, appVars, dbVars, now, faults, callerVars>>

\* send_function_result, first send: conversation.item.create
SendItem(w) ==
    /\ hpc[w] = "gather"
    /\ mpc[w] = "item"
    /\ sent' = [sent EXCEPT ![w] =
                    Append(@, FunctionOutput(cur[w].call_id, json_dumps(cur[w].result)))]
    /\ mpc' = [mpc EXCEPT ![w] = "resume"]
    /\ UNCHANGED <<hpc, call_sid, stream_sid, openai_ws, tpc, cur, dispatched, tFrames, mEvents,
                   twOut, cleanups, appVars, dbVars, now, faults, callerVars>>

\* (mutant) send_function_result without its response.create
SendResume_Skipped(w) ==
    /\ hpc[w] = "gather"
    /\ mpc[w] = "resume"
    /\ mpc' = [mpc EXCEPT ![w] = "recv"]
    /\ cur' = [cur EXCEPT ![w] = NoCall]
    /\ UNCHANGED <<hpc, call_sid, stream_sid, openai_ws, tpc, dispatched, tFrames,
                   mEvents, sent, twOut, cleanups, appVars, dbVars, now, faults, callerVars>>

\* send_function_result, second send: response.create
SendResume(w) ==
    /\ hpc[w] = "gather"
    /\ mpc[w] = "resume"
    /\ sent' = [sent EXCEPT ![w] = Append(@, ResumeCreate)]
    /\ mpc' = [mpc EXCEPT ![w] = "recv"]
    /\ cur' = [cur EXCEPT ![w] = NoCall]
    /\ UNCHANGED <<hpc, call_sid, stream_sid, openai_ws, tpc, dispatched, tFrames, mEvents,
                   twOut, cleanups, appVars, dbVars, now, faults, callerVars>>

\* Either send raises. From the try body the `except Exception` branch calls
\* send_function_result again with {"error": str(e)}; from an except branch
\* the exception leaves the loop and ends the pump in its outer except.
SendFails(w) ==
    /\ hpc[w] = "gather"
    /\ mpc[w] \in {"item", "resume"}
    /\ MayFail
    /\ faults' = faults + 1
    /\ IF cur[w].branch = "try"
       THEN /\ cur' = [cur EXCEPT ![w] =
                        [call_id |-> @.call_id, name |-> @.name, branch |-> "except",
                         result |-> [error |-> Str(SendFailure, "")]]]
            /\ mpc' = [mpc EXCEPT ![w] = "item"]
       ELSE /\ mpc' = [mpc EXCEPT ![w] = "failed"]
            /\ UNCHANGED cur
    /\ UNCHANGED dispatched
    /\ UNCHANGED <<hpc, call_sid, stream_sid, openai_ws, tpc, tFrames, mEvents,
                   sent, twOut, cleanups, appVars, dbVars, now, callerVars>>

\* the model stream ends, or iterating it raises (caught and logged)
ModelStreamCloses(w) ==
    /\ hpc[w] = "gather"
    /\ mpc[w] = "recv"
    /\ mpc' = [mpc EXCEPT ![w] = "closed"]
    /\ UNCHANGED <<hpc, call_sid, stream_sid, openai_ws, tpc, cur, dispatched, tFrames, mEvents,
                   sent, twOut, cleanups, appVars, dbVars, now, faults, callerVars>>

ModelStreamFails(w) ==
    /\ hpc[w] = "gather"
    /\ mpc[w] = "recv"
    /\ MayFail
    /\ faults' = faults + 1
    /\ mpc' = [mpc EXCEPT ![w] = "failed"]
    /\ UNCHANGED <<hpc, call_sid, stream_sid, openai_ws, tpc, cur, dispatched, tFrames, mEvents,
                   sent, twOut, cleanups, appVars, dbVars, now, callerVars>>

\* ------------------------------------------------------------ specification
\* Steps the handler takes by itself once it is scheduled.
HandlerStep(w) ==
    \/ CreateSessionOk(w) \/ CreateSessionConnectFails(w)
    \/ CreateSessionConfigureFails(w)
    \/ SendGreetingOk(w) \/ SendGreetingFails(w)
    \/ GatherReturns(w) \/ Finally(w)
    \/ \E o \in DbOutcomes : Dispatch(w, o)
    \/ SendItem(w) \/ SendResume(w) \/ SendFails(w)

\* Steps that wait for the outside: a frame, an event, a close, a cancellation.
EnvStep(w) ==
    \/ \E f \in Frames :
          \/ TwilioStart(w, f) \/ TwilioMedia(w, f) \/ TwilioMediaSendFails(w, f)
          \/ TwilioStop(w, f) \/ TwilioBadFrame(w, f)
    \/ TwilioDisconnect(w)
    \/ \E e \in Events :
          \/ ModelAudioDelta(w, e) \/ ModelToolCall(w, e) \/ ModelOtherEvent(w, e)
    \/ ModelStreamCloses(w) \/ ModelStreamFails(w)
    \/ HandlerCancelled(w)

Next == \E w \in RelayConns : HandlerStep(w) \/ EnvStep(w)

Spec == Init /\ [][Next]_vars

\* The handler's own steps are scheduled fairly; nothing is assumed of the
\* telephony side or of the model (no frame, event or close need ever come).
FairSpec == Spec /\ \A w \in RelayConns : WF_vars(HandlerStep(w))

\* ------------------------------------------------- execute_tool on its own
\* Every function name and arguments value, with and without a registered
\* call: the states in which openai_to_twilio is about to await execute_tool.
ToolNames == DeclaredTools \cup {"reset_router", NoneVal}
TransferArgs == [reason |-> "angry", customer_context |-> "refund", priority |-> "high"]
ProductArgs == [product_name |-> "phone", pincode |-> "400001"]
ToolArgTexts == {ArgsObject(OrderArgs), ArgsObject(TicketArgs), ArgsObject(TransferArgs),
                 ArgsObject(ProductArgs), ArgsObject(EmptyDict), ArgsNonDict}

ToolInit ==
    \E n \in ToolNames, t \in ToolArgTexts, c \in {NoneVal, "CA1"} :
        /\ hpc = [w \in Conns |-> IF w = "w1" THEN "gather" ELSE "create"]
        /\ call_sid = [w \in Conns |-> IF w = "w1" THEN c ELSE NoneVal]
        /\ stream_sid = [w \in Conns |-> IF w = "w1" /\ c # NoneVal THEN StreamOf(c)
                                                                   ELSE NoneVal]
        /\ openai_ws = [w \in Conns |-> w = "w1"]
        /\ tpc = [w \in Conns |-> IF w = "w1" THEN "recv" ELSE "init"]
        /\ mpc = [w \in Conns |-> IF w = "w1" THEN "dispatch" ELSE "init"]
        /\ cur = [w \in Conns |-> IF w = "w1"
                                  THEN [call_id |-> 1, name |-> n, branch |-> "try",
                                        args |-> json_loads(t)]
                                  ELSE NoCall]
        /\ dispatched = [w \in Conns |-> <<>>]
        /\ tFrames = [w \in Conns |-> IF w = "w1" /\ c # NoneVal
                                      THEN <<StartFrame(c)>> ELSE <<>>]
        /\ mEvents = [w \in Conns |-> IF w = "w1"
                                      THEN <<WithCallId(ToolCall(n, t), 1)>> ELSE <<>>]
        /\ sent = [w \in Conns |-> IF w = "w1"
                                   THEN <<SessionUpdate, GreetingCreate>> ELSE <<>>]
        /\ twOut = [w \in Conns |-> <<>>]
        /\ cleanups = [w \in Conns |-> 0]
        /\ active_sessions =
              IF c = NoneVal THEN EmptyDict
              ELSE DictPut(EmptyDict, c, [call_sid |-> c, stream_sid |-> StreamOf(c),
                                          openai_session_id |-> "w1",
                                          from_number |-> StartFrame(c).from])
        /\ active_connections = {"w1"}
        /\ closed_connections = {}
        /\ accounted = <<>>
        /\ calls_cache = IF c = NoneVal THEN EmptyDict
                         ELSE create_call_record(EmptyDict, c, StartFrame(c))
        /\ conversations_cache = EmptyDict
        /\ tickets_cache = EmptyDict
        /\ dbLog = IF c = NoneVal THEN <<>>
                   ELSE <<DbOp("create_call_record", c, "ok")>>
        /\ now = 0
        /\ faults = 0
        /\ phone = <<>>
        /\ ret = NoReturn
        /\ shutdown = FALSE
        /\ retry = NoRetry

ToolNext == \E o \in DbOutcomes : Dispatch("w1", o)

ToolSpec == ToolInit /\ [][ToolNext]_vars

\* ------------------------------------------------ several calls at once
\* Both connections run their handlers concurrently; a start frame may name
\* either call identifier on either connection. No transport operation raises.
RegFrames == {StartFrame("CA1"), StartFrame("CA2"), PlainFrame("mark"),
              PlainFrame("stop")}
RegEvents == {ToolCall("create_ticket", ArgsObject(TicketArgs)), ItemCreated("item1")}

RegStep(w) ==
    \/ CreateSessionOk(w) \/ SendGreetingOk(w)
    \/ GatherReturns(w) \/ Finally(w)
    \/ \E f \in RegFrames : TwilioStart(w, f) \/ TwilioMark(w, f) \/ TwilioStop(w, f)
    \/ TwilioDisconnect(w)
    \/ \E e \in RegEvents : ModelToolCall(w, e) \/ ModelItemCreated(w, e)
    \/ \E o \in DbOutcomes : Dispatch(w, o)
    \/ SendItem(w) \/ SendResume(w)
    \/ ModelStreamCloses(w)

RegNext == \E w \in Conns : RegStep(w)

RegSpec == Init /\ [][RegNext]_vars

\* ------------------------------------------------ tickets on their own
\* create_support_ticket and create_transfer_request called directly, for any
\* call, while the clock second stays or advances between two calls.
TicketIssues == {"billing", "delivery"}

TicketCreateSupport(c, issue) ==
    /\ Len(dbLog) < MaxDbOps
    /\ LET t == create_support_ticket(c, issue, "d", NoneVal, "medium", now)
       IN  /\ tickets_cache' = DictPut(tickets_cache, t.ticket_id, t)
           /\ ret' = [op |-> "create_support_ticket", record |-> t]
    /\ dbLog' = Append(dbLog, DbOp("create_support_ticket", c, "ok"))
    /\ UNCHANGED <<connVars, appVars, calls_cache, conversations_cache, now,
                   faults, phone, procVars>>

TicketCreateTransfer(c, reason) ==
    /\ Len(dbLog) < MaxDbOps
    /\ LET t == create_transfer_request(c, reason, "ctx", "medium", now)
       IN  /\ tickets_cache' = DictPut(tickets_cache, t.ticket_id, t)
           /\ ret' = [op |-> "create_transfer_request", record |-> t]
    /\ dbLog' = Append(dbLog, DbOp("create_transfer_request", c, "ok"))
    /\ UNCHANGED <<connVars, appVars, calls_cache, conversations_cache, now,
                   faults, phone, procVars>>

\* datetime.utcnow() reaches the next second
Tick ==
    /\ now < MaxClock
    /\ now' = now + 1
    /\ UNCHANGED <<connVars, appVars, dbVars, faults, callerVars>>

TicketNext ==
    \/ \E c \in CallIds, i \in TicketIssues :
          TicketCreateSupport(c, i) \/ TicketCreateTransfer(c, i)
    \/ Tick

TicketSpec == Init /\ [][TicketNext]_vars

\* ------------------------------------------------- retry_with_backoff
\* One call of a function wrapped by retry_with_backoff(max_retries,
\* base_delay). Each attempt of the wrapped function returns a value or raises
\* an exception, as it likes. retry records the loop variable, the number of
\* calls of the wrapped function, the exceptions they raised, the delays slept
\* and how the wrapper ended.
BaseDelays == {1, 2, 3}
ReturnValues == {"r1", "r2"}
Exceptions == {"e1", "e2"}

\* (mutant) a delay that grows linearly with the attempt
backoff_delay_Linear(base_delay, attempt) ==
    base_delay * (attempt + 1)

\* delay = base_delay * (2 ** attempt)
backoff_delay(base_delay, attempt) ==
    base_delay * (2 ^ attempt)

\* the wrapper is called: `for attempt in range(max_retries)` starts at 0
WrapperCall(m, b) ==
    /\ retry.status = "idle"
    /\ retry' = [NoRetry EXCEPT !.status = "loop", !.max_retries = m, !.base_delay = b]
    /\ UNCHANGED <<connVars, appVars, dbVars, now, faults, phone, ret, shutdown>>

\* return await func(*args, **kwargs)
WrapperAttemptReturns(v) ==
    /\ retry.status = "loop"
    /\ retry.attempt < retry.max_retries
    /\ retry' = [retry EXCEPT !.calls = @ + 1, !.status = "returned", !.result = v]
    /\ UNCHANGED <<connVars, appVars, dbVars, now, faults, phone, ret, shutdown>>

\* except Exception: raise on the last attempt, else sleep and go on
WrapperAttemptRaises(e) ==
    /\ retry.status = "loop"
    /\ retry.attempt < retry.max_retries
    /\ retry' =
          IF retry.attempt = retry.max_retries - 1
          THEN [retry EXCEPT !.calls = @ + 1, !.errors = Append(@, e),
                             !.status = "raised", !.result = e]
          ELSE [retry EXCEPT !.calls = @ + 1, !.errors = Append(@, e),
                             !.sleeps = Append(@, backoff_delay(retry.base_delay,
                                                                retry.attempt)),
                             !.attempt = @ + 1]
    /\ UNCHANGED <<connVars, appVars, dbVars, now, faults, phone, ret, shutdown>>

\* range(max_retries) is exhausted: the wrapper falls off its end, None
WrapperLoopEnds ==
    /\ retry.status = "loop"
    /\ ~(retry.attempt < retry.max_retries)
    /\ retry' = [retry EXCEPT !.status = "returned", !.result = NoneVal]
    /\ UNCHANGED <<connVars, appVars, dbVars, now, faults, phone, ret, shutdown>>

RetryNext ==
    \/ \E m \in 0..MaxRetries, b \in BaseDelays : WrapperCall(m, b)
    \/ \E v \in ReturnValues : WrapperAttemptReturns(v)
    \/ \E e \in Exceptions : WrapperAttemptRaises(e)
    \/ WrapperLoopEnds

RetrySpec == Init /\ [][RetryNext]_vars

\* ------------------------------------------------- application shutdown
\* The lifespan's shutdown: cleanup_session for every key of a snapshot of
\* the registry. cleanup_session never suspends, so the loop runs in one
\* step; the handlers' finally blocks run before it or after it. The
\* registry's key order is not kept in the model: any order is taken.
RECURSIVE shutdown_sessions(_, _)
shutdown_sessions(sessions, order) ==
    IF order = <<>> THEN sessions
    ELSE shutdown_sessions(cleanup_sessions(sessions, Head(order)), Tail(order))

RECURSIVE shutdown_accounted(_, _, _)
shutdown_accounted(sessions, acc, order) ==
    IF order = <<>> THEN acc
    ELSE shutdown_accounted(cleanup_sessions(sessions, Head(order)),
                            cleanup_accounted(sessions, acc, Head(order)),
                            Tail(order))

KeyOrders(sessions) ==
    {o \in UNION {[1..n -> DOMAIN sessions] : n \in {Cardinality(DOMAIN sessions)}} :
        \A i, j \in DOMAIN o : i # j => o[i] # o[j]}

Shutdown ==
    /\ ~shutdown
    /\ shutdown' = TRUE
    /\ \E order \in KeyOrders(active_sessions) :
          /\ active_sessions' = shutdown_sessions(active_sessions, order)
          /\ accounted' = shutdown_accounted(active_sessions, accounted, order)
    /\ UNCHANGED <<connVars, active_connections, closed_connections, dbVars, now,
                   faults, phone, ret, retry>>

\* The handlers of two connections, as far as the registry goes, next to it.
ShutFrames == {StartFrame("CA1"), StartFrame("CA2"), PlainFrame("stop")}

ShutStep(w) ==
    \/ CreateSessionOk(w) \/ SendGreetingOk(w)
    \/ GatherReturns(w) \/ HandlerCancelled(w) \/ Finally(w)
    \/ \E f \in ShutFrames : TwilioStart(w, f) \/ TwilioStop(w, f)
    \/ TwilioDisconnect(w)
    \/ ModelStreamCloses(w)

ShutNext == (\E w \in Conns : ShutStep(w)) \/ Shutdown

ShutSpec == Init /\ [][ShutNext]_vars

\* ------------------------------------------- the persistence on its own
\* DatabaseService called directly, as the tests do: any order of
\* create_call_record, end_call_record, get_call_record and
\* get_active_calls_count over a few call identifiers. No method suspends
\* before it has read and written the cache, so each call is one step.
DbIds == {"CA1", "CA2", "CA3"}

\* what end_call_record returns: the updated record, or {} for an unknown call
end_call_record_returns(cache, c) ==
    IF c \in DOMAIN cache THEN end_call_record(cache, c)[c] ELSE EmptyDict

\* get_call_record: calls_cache.get(call_sid), None when there is no record
get_call_record(cache, c) ==
    IF c \in DOMAIN cache THEN [found |-> TRUE, record |-> cache[c]]
                          ELSE [found |-> FALSE, record |-> EmptyDict]

\* (mutant) a count of all records, whatever their status
get_active_calls_count_All(cache) == Cardinality(DOMAIN cache)

get_active_calls_count(cache) ==
    Cardinality({c \in DOMAIN cache : cache[c].status = "in-progress"})

DbCreate(c) ==
    /\ Len(dbLog) < MaxDbOps
    /\ calls_cache' = create_call_record(calls_cache, c, StartFrame(c))
    /\ dbLog' = Append(dbLog, DbOp("create_call_record", c, "ok"))
    /\ ret' = [op |-> "create_call_record", call_sid |-> c,
               record |-> create_call_record(calls_cache, c, StartFrame(c))[c]]
    /\ UNCHANGED <<connVars, appVars, conversations_cache, tickets_cache, now,
                   faults, phone, procVars>>

DbEnd(c) ==
    /\ Len(dbLog) < MaxDbOps
    /\ calls_cache' = end_call_record(calls_cache, c)
    /\ dbLog' = Append(dbLog, DbOp("end_call_record", c, "ok"))
    /\ ret' = [op |-> "end_call_record", call_sid |-> c,
               record |-> end_call_record_returns(calls_cache, c)]
    /\ UNCHANGED <<connVars, appVars, conversations_cache, tickets_cache, now,
                   faults, phone, procVars>>

DbGet(c) ==
    /\ Len(dbLog) < MaxDbOps
    /\ dbLog' = Append(dbLog, DbOp("get_call_record", c, "ok"))
    /\ ret' = [op |-> "get_call_record", call_sid |-> c,
               found |-> get_call_record(calls_cache, c).found,
               record |-> get_call_record(calls_cache, c).record]
    /\ UNCHANGED <<connVars, appVars, calls_cache, conversations_cache,
                   tickets_cache, now, faults, phone, procVars>>

DbCount ==
    /\ Len(dbLog) < MaxDbOps
    /\ dbLog' = Append(dbLog, DbOp("get_active_calls_count", NoneVal, "ok"))
    /\ ret' = [op |-> "get_active_calls_count",
               count |-> get_active_calls_count(calls_cache)]
    /\ UNCHANGED <<connVars, appVars, calls_cache, conversations_cache,
                   tickets_cache, now, faults, phone, procVars>>

DbNext == (\E c \in DbIds : DbCreate(c) \/ DbEnd(c) \/ DbGet(c)) \/ DbCount

DbSpec == Init /\ [][DbNext]_vars

\* ------------------------------------------------ sanitize_phone_number
\* A text is the sequence of its characters. The alphabet has two digits and
\* one character that is not a digit; texts are built one character at a time.
Digits == {"0", "1", "2", "3", "4", "5", "6", "7", "8", "9"}
PhoneChars == {"9", "1", "+"}
IsDigit(ch) == ch \in Digits
StartsWith91(d) == Len(d) >= 2 /\ d[1] = "9" /\ d[2] = "1"

\* (mutant) the country code added to any number that does not start with 91
sanitize_phone_number_AnyLength(text) ==
    LET digits == SelectSeq(text, IsDigit)
    IN  <<"+">> \o (IF ~StartsWith91(digits) THEN <<"9", "1">> \o digits ELSE digits)

\* re.sub(r'\D', '', phone), then '91' in front of ten digits that do not
\* start with 91, then '+' in front
sanitize_phone_number(text) ==
    LET digits == SelectSeq(text, IsDigit)
    IN  <<"+">> \o (IF ~StartsWith91(digits) /\ Len(digits) = 10
                    THEN <<"9", "1">> \o digits ELSE digits)

PhoneType(ch) ==
    /\ Len(phone) < MaxPhoneLen
    /\ phone' = Append(phone, ch)
    /\ ret' = NoReturn
    /\ UNCHANGED <<connVars, appVars, dbVars, now, faults, procVars>>

PhoneSanitize ==
    /\ ret = NoReturn
    /\ ret' = [op |-> "sanitize_phone_number",
               text |-> sanitize_phone_number(phone),
               again |-> sanitize_phone_number(sanitize_phone_number(phone))]
    /\ UNCHANGED <<connVars, appVars, dbVars, now, faults, phone, procVars>>

PhoneNext == (\E ch \in PhoneChars : PhoneType(ch)) \/ PhoneSanitize

PhoneSpec == Init /\ [][PhoneNext]_vars

\* ------------------------------------------------ events that only log
\* One call receiving the event kinds the pumps only log, next to audio.
QuietKinds == {"error", "response.done", "response.audio.done", "session.updated",
               "rate_limits.updated"}
QuietFrames == {StartFrame("CA1"), StartFrame("CA2"), PlainFrame("mark"), MediaFrame("AAA=")}
QuietEvents == {PlainEvent(k) : k \in QuietKinds} \cup {AudioDelta("D1")}

QuietStep(w) ==
    \/ CreateSessionOk(w) \/ SendGreetingOk(w)
    \/ GatherReturns(w) \/ Finally(w)
    \/ \E f \in QuietFrames : TwilioStart(w, f) \/ TwilioMark(w, f) \/ TwilioMedia(w, f)
    \/ TwilioDisconnect(w)
    \/ \E e \in QuietEvents : ModelOtherEvent(w, e) \/ ModelAudioDelta(w, e)
    \/ ModelStreamCloses(w)

QuietNext == \E w \in RelayConns : QuietStep(w)

QuietSpec == Init /\ [][QuietNext]_vars

\* ------------------------------------------------------------------ claims
IsAppend(c) == c.type = "input_audio_buffer.append"
IsItem(c) == c.type = "conversation.item.create"
IsResume(c) == c.type = "response.create" /\ ~c.greeting
IsToolCall(e) == e.type = "response.function_call_arguments.done"
Map(s, F(_)) == [i \in 1..Len(s) |-> F(s[i])]
Registered(c) == c \in DOMAIN active_sessions

\* C1: while the handler awaits its two pumps, once one pump has finished the
\* other one is cancelled: the survivor consumes no further frame or event
\* and writes nothing more to either transport.
C1_FirstFinishCancelsSibling ==
    [][\A w \in Conns :
          /\ (hpc[w] = "gather" /\ TEnded(w) /\ ~MEnded(w)) =>
                /\ mEvents'[w] = mEvents[w]
                /\ sent'[w] = sent[w]
                /\ twOut'[w] = twOut[w]
                /\ dispatched'[w] = dispatched[w]
          /\ (hpc[w] = "gather" /\ MEnded(w) /\ ~TEnded(w)) =>
                /\ tFrames'[w] = tFrames[w]
                /\ sent'[w] = sent[w]]_vars

\* C2: for every connection, once a pump has terminated (by whatever path) the
\* cleanup sequence runs, it runs exactly once, and when it has run the call
\* identifier is absent from the registry.
C2_CleanupExactlyOnce ==
    \A w \in Conns :
        /\ [](cleanups[w] <= 1)
        /\ (hpc[w] = "gather" /\ (TEnded(w) \/ MEnded(w)))
              ~> (cleanups[w] = 1 /\ ~Registered(call_sid[w]))

\* C3: after a stop frame has been processed for a registered call, the call
\* identifier is eventually removed from the registry, whatever the model does.
C3_StopLeadsToRemoval ==
    \A w \in Conns :
        (tpc[w] = "stopped" /\ Registered(call_sid[w]))
            ~> ~Registered(call_sid[w])

IsMedia(f) == f.event = "media"
NonEmpty(p) == p # ""
PayloadOf(f) == f.payload
AudioOf(c) == c.audio
CallIdOf(e) == e.call_id
Max(S) == CHOOSE x \in S : \A y \in S : y <= x
Min(S) == CHOOSE x \in S : \A y \in S : x <= y

\* payloads of the media frames consumed, and of the appends written
MediaPayloads(fs) == Map(SelectSeq(fs, IsMedia), PayloadOf)
Appends(w) == Map(SelectSeq(sent[w], IsAppend), AudioOf)
\* the frames whose handling ran to its end: a pump that failed did so on its
\* last frame (text that does not decode, or a send that raised)
Processed(w) ==
    IF tpc[w] = "failed" THEN SubSeq(tFrames[w], 1, Len(tFrames[w]) - 1)
                         ELSE tFrames[w]

\* C4 as stated: the appends sent are the payloads of all media frames received.
C4_AllPayloadsForwarded ==
    \A w \in Conns :
        tpc[w] # "failed" => Appends(w) = MediaPayloads(tFrames[w])

\* C4 (amended): the appends sent to the model are exactly the non-empty
\* payloads of the media frames the telephony pump processed, each once,
\* unmodified and in arrival order; an empty payload is not forwarded.
C4_NonEmptyPayloadsForwarded ==
    \A w \in Conns :
        Appends(w) = SelectSeq(MediaPayloads(Processed(w)), NonEmpty)

C4_Witness ==
    \E w \in Conns :
        /\ MediaPayloads(tFrames[w]) = <<"AAA=", "", "BBB=">>
        /\ Appends(w) = <<"AAA=", "BBB=">>

Resumes(w) == {j \in 1..Len(sent[w]) : IsResume(sent[w][j])}
PrevCreate(w, j) == Max({i \in 1..(j - 1) : sent[w][i].type = "response.create"})
ItemsBefore(w, j) == {i \in (PrevCreate(w, j) + 1)..(j - 1) : IsItem(sent[w][i])}
ToolCallIds(w) == Map(SelectSeq(mEvents[w], IsToolCall), CallIdOf)

\* C5: every resume directive (response.create after the greeting) is preceded,
\* since the previous response.create, by at least one function_call_output,
\* and every function_call_output written there is keyed by the call_id of the
\* tool call being resumed: none for another tool call lies between the two.
C5_ResultThenResume ==
    \A w \in Conns :
        \A j \in Resumes(w) :
            LET k == Cardinality({r \in Resumes(w) : r <= j})
            IN  /\ ItemsBefore(w, j) # {}
                /\ k <= Len(ToolCallIds(w))
                /\ \A i \in ItemsBefore(w, j) :
                       sent[w][i].call_id = ToolCallIds(w)[k]

C5_Witness ==
    \E w \in Conns :
        /\ Cardinality(Resumes(w)) = 2
        /\ \E i, j \in 1..Len(sent[w]) :
              /\ IsItem(sent[w][i]) /\ IsItem(sent[w][j])
              /\ sent[w][i].call_id # sent[w][j].call_id

\* C6 as stated: the command right after a function_call_output is response.create.
C6_ResumeImmediatelyFollows ==
    \A w \in Conns :
        \A i \in 1..(Len(sent[w]) - 1) :
            IsItem(sent[w][i]) => IsResume(sent[w][i + 1])

\* C6 (amended): after a function_call_output the next command that is not an
\* input_audio_buffer.append of the telephony pump is response.create, or,
\* when a send raised, the error branch's function_call_output for the same
\* call_id; appends of the telephony pump can be written in between.
C6_ResumeFollowsModuloAudio ==
    \A w \in Conns :
        \A i \in 1..Len(sent[w]) :
            IsItem(sent[w][i]) =>
                LET later == {j \in (i + 1)..Len(sent[w]) : ~IsAppend(sent[w][j])}
                IN  later # {} =>
                       LET n == sent[w][Min(later)]
                       IN  \/ IsResume(n)
                           \/ /\ IsItem(n)
                              /\ n.call_id = sent[w][i].call_id
                              /\ n.output = json_dumps([error |-> Str(SendFailure, "")])

C6_Witness ==
    \E w \in Conns :
        \E i \in 1..(Len(sent[w]) - 2) :
            /\ IsItem(sent[w][i])
            /\ IsAppend(sent[w][i + 1])
            /\ IsResume(sent[w][i + 2])

HasOutputFor(w, id) ==
    \E i \in 1..Len(sent[w]) : IsItem(sent[w][i]) /\ sent[w][i].call_id = id

\* C7: whenever the model pump has consumed an event after a tool-call event,
\* or is ready to consume the next one, a function_call_output carrying that
\* tool call's call_id has been written to the model stream.
C7_OutputBeforeNextEvent ==
    \A w \in Conns :
        \A k \in 1..Len(mEvents[w]) :
            (IsToolCall(mEvents[w][k]) /\ (k < Len(mEvents[w]) \/ mpc[w] = "recv"))
                => HasOutputFor(w, mEvents[w][k].call_id)

C7_Witness ==
    \E w \in Conns :
        /\ Len(mEvents[w]) >= 2
        /\ IsToolCall(mEvents[w][1])
        /\ HasOutputFor(w, mEvents[w][1].call_id)
        /\ \E i \in 1..Len(dbLog) : dbLog[i].outcome = "raise"

IsUnparsable(e) == IsToolCall(e) /\ ~json_loads(e.arguments).ok

\* C8: for a tool-call event whose arguments do not parse, every result written
\* for its call_id is {error: "Invalid arguments"}, execute_tool is not invoked
\* for it, and it does not end the pump: the pump is failed only if a
\* transport operation raised.
C8_InvalidArguments ==
    \A w \in Conns :
        \A k \in 1..Len(mEvents[w]) :
            IsUnparsable(mEvents[w][k]) =>
                /\ \A i \in 1..Len(sent[w]) :
                       (IsItem(sent[w][i]) /\ sent[w][i].call_id = mEvents[w][k].call_id)
                           => sent[w][i].output = json_dumps(InvalidArguments)
                /\ \A i \in 1..Len(dispatched[w]) :
                       dispatched[w][i] # mEvents[w][k].call_id
                /\ (mpc[w] = "failed" => faults > 0)
                /\ (k < Len(mEvents[w]) \/ mpc[w] = "recv")
                       => HasOutputFor(w, mEvents[w][k].call_id)

C8_Witness ==
    \E w \in Conns :
        /\ Len(mEvents[w]) = 2
        /\ IsUnparsable(mEvents[w][1])
        /\ HasOutputFor(w, 1)
        /\ mEvents[w][2].type = "response.audio.delta"
        /\ Len(twOut[w]) = 1

\* the persistence operations execute_tool invoked (not those of the pumps)
IsToolOp(o) == o.op \in {"get_order_details", "check_inventory",
                         "create_transfer_request", "create_support_ticket"}
ToolOps == SelectSeq(dbLog, IsToolOp)
Returned(w) == mpc[w] = "item" /\ dispatched[w] # <<>>

\* C9: execute_tool returns a result mapping and lets no exception escape, for
\* every function name, arguments value and collaborator outcome; when the
\* collaborator raised, the mapping has an error field holding the reason.
C9_ToolNeverRaises ==
    \A w \in Conns :
        Returned(w) =>
            /\ cur[w].branch = "try"
            /\ DOMAIN cur[w].result # {}
            /\ (\E i \in 1..Len(ToolOps) : ToolOps[i].outcome = "raise")
                   => /\ "error" \in DOMAIN cur[w].result
                      /\ cur[w].result.error = Str(DbFailure, "")

C9_Witness ==
    \E w \in Conns :
        /\ Returned(w)
        /\ cur[w].name = "create_ticket"
        /\ ToolOps = <<DbOp("create_support_ticket", "CA1", "raise")>>
        /\ cur[w].result.error = Str(DbFailure, "")

\* C10: for a function name that is none of the four declared tools,
\* execute_tool returns a mapping whose error field names that function,
\* invokes no persistence operation, stores no ticket and raises nothing.
C10_UnknownFunction ==
    \A w \in Conns :
        (Returned(w) /\ cur[w].name \notin DeclaredTools) =>
            /\ cur[w].branch = "try"
            /\ "error" \in DOMAIN cur[w].result
            /\ cur[w].result.error = Str("Unknown function: ", cur[w].name)
            /\ ToolOps = <<>>
            /\ tickets_cache = EmptyDict

C10_Witness ==
    \E w \in Conns :
        /\ Returned(w)
        /\ cur[w].name = "reset_router"
        /\ cur[w].result.error = Str("Unknown function: ", "reset_router")
        /\ call_sid[w] = "CA1"

Last(s) == s[Len(s)]

\* C11: a telephony frame that does not decode is dropped and the telephony
\* pump keeps running: the frame never leaves the pump failed.
C11_MalformedFrameDropped ==
    \A w \in Conns :
        (tFrames[w] # <<>> /\ Last(tFrames[w]).event = "bad") => tpc[w] # "failed"

\* C12: when the handler has finished, by whatever path, the model connection it
\* created is no longer held in active_connections.
C12_ConnectionReleased ==
    \A w \in Conns : hpc[w] = "closed" => w \notin active_connections

IsDelta(e) == e.type = "response.audio.delta"
DeltaOf(e) == e.delta

\* C20: the payloads of the media frames written to telephony are the deltas of
\* the response.audio.delta events the model pump consumed, one frame per
\* event, in arrival order, whether or not a telephony frame was read before.
C20_EveryDeltaForwarded ==
    \A w \in Conns :
        Map(twOut[w], PayloadOf) = Map(SelectSeq(mEvents[w], IsDelta), DeltaOf)

StartedOn(w, c) ==
    \E i \in 1..Len(tFrames[w]) :
        tFrames[w][i].event = "start" /\ tFrames[w][i].callSid = c

\* C13: a call identifier is in the registry exactly when some relay loop has
\* processed a start frame for it and has not yet completed its cleanup.
C13_RegisteredIffActive ==
    \A c \in CallIds :
        Registered(c) <=> \E w \in Conns : StartedOn(w, c) /\ hpc[w] # "closed"

SessionsOf(c) == {k \in DOMAIN active_sessions : active_sessions[k].call_sid = c}

\* C14: the registry holds at most one session record per call identifier,
\* also after a second start frame for the identifier, on the same connection
\* or on another one.
C14_AtMostOneSession ==
    \A c \in CallIds : Cardinality(SessionsOf(c)) <= 1

C14_Witness ==
    /\ Len(SelectSeq(tFrames["w1"], LAMBDA f : f = StartFrame("CA1"))) = 2
    /\ StartedOn("w2", "CA1")
    /\ hpc["w1"] = "gather" /\ hpc["w2"] = "gather"
    /\ Cardinality(SessionsOf("CA1")) = 1

\* C15: registering under a call identifier that is already in the registry
\* leaves the existing entry as it was.
C15_DuplicateRejected ==
    [][\A c \in CallIds :
          (Registered(c) /\ c \in DOMAIN active_sessions')
              => active_sessions'[c] = active_sessions[c]]_vars

\* C16: cleanup_session applied twice leaves the registry that one application
\* leaves, and a handler whose call identifier is absent from the registry
\* finishes its cleanup with the registry and the accounting unchanged.
C16_CleanupIdempotent ==
    [][/\ \A id \in CallIds :
              cleanup_sessions(cleanup_sessions(active_sessions, id), id)
                  = cleanup_sessions(active_sessions, id)
       /\ \A w \in Conns :
              (hpc[w] = "finally" /\ hpc'[w] = "closed" /\ ~Registered(call_sid[w]))
                  => /\ active_sessions' = active_sessions
                     /\ accounted' = accounted]_vars

C16_Witness ==
    /\ hpc["w1"] = "closed" /\ hpc["w2"] = "closed"
    /\ call_sid["w1"] = "CA1" /\ call_sid["w2"] = "CA1"
    /\ StartedOn("w1", "CA2")
    /\ accounted = <<"CA1">>
    /\ DOMAIN active_sessions = {"CA2"}

ConnState(w) ==
    <<hpc[w], call_sid[w], stream_sid[w], openai_ws[w], tpc[w], mpc[w], cur[w],
      dispatched[w], tFrames[w], mEvents[w], sent[w], twOut[w], cleanups[w]>>

\* C17: a step taken by one connection's handler changes no registry entry
\* other than the one of that handler's own call identifier: every other
\* identifier stays absent or keeps its record.
C17_OtherCallsUntouched ==
    [][\A w \in Conns :
          ConnState(w)' # ConnState(w) =>
              \A c \in CallIds :
                  c # call_sid'[w] =>
                      /\ Registered(c) <=> c \in DOMAIN active_sessions'
                      /\ Registered(c) => active_sessions'[c] = active_sessions[c]]_vars

C17_Witness ==
    /\ hpc["w1"] = "closed" /\ call_sid["w1"] = "CA1"
    /\ dispatched["w1"] # <<>>
    /\ accounted = <<"CA1">>
    /\ call_sid["w2"] = "CA2" /\ hpc["w2"] = "gather"
    /\ DOMAIN active_sessions = {"CA2"}
    /\ active_sessions["CA2"].openai_session_id = "w2"

Suspended(w) == hpc[w] = "gather" /\ mpc[w] \in {"dispatch", "item", "resume"}

\* C18: while the model pump is suspended in a tool dispatch or in sending its
\* result, the telephony pump that is waiting for a frame can take its next
\* step: a media frame arriving then is forwarded to the model at once.
C18_TelephonyIndependent ==
    \A w \in Conns :
        (Suspended(w) /\ tpc[w] = "recv" /\ openai_ws[w] /\ Received < MaxInputs) =>
            ENABLED (/\ TwilioMedia(w, MediaFrame("AAA="))
                     /\ sent'[w] = Append(sent[w], AudioAppend("AAA="))
                     /\ mpc'[w] = mpc[w])

C18_Witness ==
    \E w \in Conns :
        /\ Suspended(w) /\ mpc[w] = "resume"
        /\ Len(sent[w]) >= 2
        /\ IsAppend(Last(sent[w]))
        /\ IsItem(sent[w][Len(sent[w]) - 1])

\* C19: when a pump ends on an exception, the step that ends it leaves the
\* sibling pump where it was and leaves the handler waiting for both pumps:
\* the exception reaches neither the sibling nor the handler.
C19_FailureStaysInPump ==
    [][\A w \in Conns :
          /\ (tpc[w] # "failed" /\ tpc'[w] = "failed")
                => (mpc'[w] = mpc[w] /\ hpc'[w] = hpc[w] /\ hpc[w] = "gather")
          /\ (mpc[w] # "failed" /\ mpc'[w] = "failed")
                => (tpc'[w] = tpc[w] /\ hpc'[w] = hpc[w] /\ hpc[w] = "gather")]_vars

C19_Witness ==
    \E w \in Conns :
        /\ hpc[w] = "gather"
        /\ tpc[w] = "failed" /\ Last(tFrames[w]).event = "bad"
        /\ mpc[w] = "resume"

\* C21: on a call's model stream the first command is session.update and the
\* second the greeting's response.create; no frame or event is consumed by a
\* pump, and so no audio append is sent, before both of them have been sent.
C21_GreetingFirst ==
    \A w \in Conns :
        /\ Len(sent[w]) >= 1 => sent[w][1] = SessionUpdate
        /\ Len(sent[w]) >= 2 => sent[w][2] = GreetingCreate
        /\ (tFrames[w] # <<>> \/ mEvents[w] # <<>> \/ tpc[w] # "init" \/ mpc[w] # "init")
              => Len(sent[w]) >= 2

C21_Witness ==
    \E w \in Conns :
        /\ Len(sent[w]) >= 3
        /\ IsAppend(sent[w][3])
        /\ mEvents[w] # <<>>

\* the handler left its set-up without both opening commands on the stream
SetupFailed(w) == hpc[w] \notin {"create", "greet"} /\ Len(sent[w]) < 2
IsCreateCallRecord(o) == o.op = "create_call_record"

\* C22: when opening the model stream, configuring it or requesting the
\* greeting fails, neither pump is started (no frame or event is consumed, no
\* registry entry and no call record is created), and the handler goes on to
\* run its cleanup once and return.
C22_SetupFailureStartsNothing ==
    \A w \in RelayConns :
        /\ [](SetupFailed(w) =>
                /\ tpc[w] = "init" /\ mpc[w] = "init"
                /\ tFrames[w] = <<>> /\ mEvents[w] = <<>>
                /\ active_sessions = EmptyDict
                /\ SelectSeq(dbLog, IsCreateCallRecord) = <<>>
                /\ calls_cache = EmptyDict)
        /\ SetupFailed(w) ~> (hpc[w] = "closed" /\ cleanups[w] = 1)

C22_Witness ==
    \E w \in RelayConns :
        /\ SetupFailed(w)
        /\ sent[w] = <<SessionUpdate>>
        /\ hpc[w] = "closed" /\ cleanups[w] = 1
        /\ closed_connections = {w}

\* C23: the step in which the telephony pump processes a start frame carrying
\* call identifier c and stream identifier s leaves the registry holding, under
\* c, the record with s, this connection's model-session identifier and the
\* caller number of the frame, and invokes create_call_record for c once.
C23_StartRegisters ==
    [][\A w \in Conns : \A f \in Frames \cup RegFrames :
          (f.event = "start" /\ tFrames'[w] = Append(tFrames[w], f)) =>
              /\ f.callSid \in DOMAIN active_sessions'
              /\ active_sessions'[f.callSid] =
                     [call_sid |-> f.callSid, stream_sid |-> f.streamSid,
                      openai_session_id |-> w, from_number |-> f.from]
              /\ dbLog' = Append(dbLog, DbOp("create_call_record", f.callSid, "ok"))
              /\ f.callSid \in DOMAIN calls_cache'
              /\ calls_cache'[f.callSid].status = "in-progress"]_vars

C23_Witness ==
    /\ tFrames["w1"] = <<StartFrame("CA1")>>
    /\ tFrames["w2"] = <<StartFrame("CA2")>>
    /\ active_sessions["CA2"].openai_session_id = "w2"
    /\ active_sessions["CA2"].stream_sid = "MZ2"
    /\ active_sessions["CA1"].from_number = "+919876543210"
    /\ dbLog = <<DbOp("create_call_record", "CA1", "ok"),
                 DbOp("create_call_record", "CA2", "ok")>>

IsEndCallRecord(o) == o.op = "end_call_record"

\* C24: the step that consumes a stop frame ends the telephony pump normally
\* and, for a started call, invokes end_call_record for it; this happens once
\* per call, and from then on the pump consumes no frame and sends no append.
C24_StopIsTerminal ==
    [][\A w \in Conns :
          /\ tFrames'[w] = Append(tFrames[w], PlainFrame("stop")) =>
                /\ tpc'[w] = "stopped"
                /\ call_sid[w] # NoneVal =>
                      /\ dbLog' = Append(dbLog, DbOp("end_call_record", call_sid[w], "ok"))
                      /\ calls_cache'[call_sid[w]].status = "completed"
                /\ call_sid[w] = NoneVal => dbLog' = dbLog
                /\ Len(SelectSeq(dbLog', IsEndCallRecord)) <= 1
          /\ tpc[w] = "stopped" =>
                /\ tpc'[w] = "stopped"
                /\ tFrames'[w] = tFrames[w]
                /\ SelectSeq(sent'[w], IsAppend) = SelectSeq(sent[w], IsAppend)
                /\ SelectSeq(dbLog', IsEndCallRecord) = SelectSeq(dbLog, IsEndCallRecord)]_vars

C24_Witness ==
    \E w \in Conns :
        /\ tpc[w] = "stopped"
        /\ tFrames[w] = <<StartFrame("CA1"), PlainFrame("stop")>>
        /\ mEvents[w] # <<>> /\ mpc[w] = "resume"
        /\ calls_cache["CA1"].status = "completed"
        /\ SelectSeq(dbLog, IsEndCallRecord) = <<DbOp("end_call_record", "CA1", "ok")>>

\* C25: the step in which the model pump consumes an event of kind error,
\* response.done, response.audio.done, session.updated or of an unrecognized
\* kind, and the step in which the telephony pump consumes a mark frame,
\* change nothing but the record of what was consumed: no session state, no
\* transport, no persistence; the pump is back waiting for its next input.
C25_LoggedOnly ==
    [][\A w \in Conns :
          /\ (\E k \in QuietKinds : mEvents'[w] = Append(mEvents[w], PlainEvent(k))) =>
                /\ mpc'[w] = "recv" /\ tpc'[w] = tpc[w]
                /\ UNCHANGED <<hpc, call_sid, stream_sid, openai_ws, cur, dispatched,
                               tFrames, sent, twOut, cleanups, appVars, dbVars>>
          /\ tFrames'[w] = Append(tFrames[w], PlainFrame("mark")) =>
                /\ tpc'[w] = "recv" /\ mpc'[w] = mpc[w]
                /\ UNCHANGED <<hpc, call_sid, stream_sid, openai_ws, cur, dispatched,
                               mEvents, sent, twOut, cleanups, appVars, dbVars>>]_vars

C25_Witness ==
    \E w \in Conns :
        /\ tFrames[w] = <<StartFrame("CA1")>>
        /\ mEvents[w] = <<PlainEvent("error"), AudioDelta("D1")>>
        /\ Len(twOut[w]) = 1
        /\ mpc[w] = "recv"

IsItemCreated(e) == e.type = "conversation.item.created"
ItemOf(e) == e.item
ItemIdOf(entry) == entry.item_id

\* C26: the conversation history stored for a call is the sequence of the
\* items of the conversation.item.created events its model pump consumed, each
\* once and in arrival order.
C26_HistoryIsItemsConsumed ==
    \A w \in Conns :
        call_sid[w] # NoneVal =>
            Map(DictGet(conversations_cache, call_sid[w], <<>>), ItemIdOf)
                = Map(SelectSeq(mEvents[w], IsItemCreated), ItemOf)

\* the parsed arguments of the tool call being dispatched, and one of them
ArgsOf(w) == json_loads(mEvents[w][1].arguments)
Arg(w, k, default) ==
    IF k \in DOMAIN ArgsOf(w).value THEN ArgsOf(w).value[k] ELSE default
StoredTicket(w, kind, status) ==
    LET r == cur[w].result
    IN  /\ ToolOps = <<DbOp(kind, call_sid[w], "ok")>>
        /\ r.status = status
        /\ r.ticket_id \in DOMAIN tickets_cache
        /\ tickets_cache[r.ticket_id].ticket_id = r.ticket_id
        /\ tickets_cache[r.ticket_id].call_sid = call_sid[w]
        /\ tickets_cache[r.ticket_id].priority = Arg(w, "priority", "medium")

\* C27: with a mapping as arguments and a collaborator that returns,
\* transfer_to_human and create_ticket invoke one persistence operation with
\* the dispatching call's identifier, store priority medium unless the
\* arguments carry one, and return transfer_initiated / ticket_created with
\* the ticket_id that was stored; lookup_order and check_product_availability
\* return the collaborator's record as it is.
C27_ToolResults ==
    \A w \in Conns :
        (/\ Returned(w)
         /\ ArgsOf(w).isdict
         /\ \A i \in 1..Len(ToolOps) : ToolOps[i].outcome = "ok") =>
            /\ cur[w].name = "transfer_to_human" =>
                  /\ StoredTicket(w, "create_transfer_request", "transfer_initiated")
                  /\ tickets_cache[cur[w].result.ticket_id].reason
                         = Arg(w, "reason", NoneVal)
            /\ cur[w].name = "create_ticket" =>
                  /\ StoredTicket(w, "create_support_ticket", "ticket_created")
                  /\ tickets_cache[cur[w].result.ticket_id].issue_type
                         = Arg(w, "issue_type", NoneVal)
            /\ cur[w].name = "lookup_order" =>
                  /\ ToolOps = <<DbOp("get_order_details", call_sid[w], "ok")>>
                  /\ cur[w].result = get_order_details(Arg(w, "order_id", NoneVal))
            /\ cur[w].name = "check_product_availability" =>
                  /\ ToolOps = <<DbOp("check_inventory", call_sid[w], "ok")>>
                  /\ cur[w].result = check_inventory(Arg(w, "product_name", NoneVal),
                                                     Arg(w, "pincode", NoneVal))

C27_Witness ==
    \E w \in Conns :
        /\ Returned(w)
        /\ cur[w].name = "create_ticket"
        /\ mEvents[w][1].arguments = ArgsObject(TicketArgs)
        /\ call_sid[w] = "CA1"
        /\ cur[w].result.status = "ticket_created"
        /\ tickets_cache[cur[w].result.ticket_id].priority = "medium"
        /\ tickets_cache[cur[w].result.ticket_id].description = "late"

\* the create/end operations invoked for call c, in order
LifeOps(c) ==
    SelectSeq(dbLog, LAMBDA o : o.call_sid = c /\
                  o.op \in {"create_call_record", "end_call_record"})
Created(c) == \E i \in 1..Len(LifeOps(c)) : LifeOps(c)[i].op = "create_call_record"
LastLifeOp(c) == IF LifeOps(c) = <<>> THEN NoneVal ELSE Last(LifeOps(c)).op

\* C28: a call whose last operation is create_call_record has a record with
\* status in-progress; once end_call_record follows, the record has status
\* completed and an end time, and get_call_record returns it; a call that was
\* never created has no record, and end_call_record for it returns {}.
C28_CallRecordLifecycle ==
    /\ \A c \in DbIds :
          /\ Created(c) <=> c \in DOMAIN calls_cache
          /\ LastLifeOp(c) = "create_call_record" =>
                (calls_cache[c].status = "in-progress" /\ ~calls_cache[c].ended)
          /\ (Created(c) /\ LastLifeOp(c) = "end_call_record") =>
                (calls_cache[c].status = "completed" /\ calls_cache[c].ended)
    /\ ret.op = "create_call_record" => ret.record.status = "in-progress"
    /\ ret.op = "end_call_record" =>
          IF Created(ret.call_sid)
          THEN ret.record = calls_cache[ret.call_sid] /\ ret.record.status = "completed"
          ELSE ret.record = EmptyDict
    /\ ret.op = "get_call_record" =>
          /\ ret.found <=> Created(ret.call_sid)
          /\ ret.found => ret.record = calls_cache[ret.call_sid]

C28_Witness ==
    /\ dbLog = <<DbOp("create_call_record", "CA1", "ok"),
                 DbOp("end_call_record", "CA1", "ok"),
                 DbOp("end_call_record", "CA2", "ok"),
                 DbOp("get_call_record", "CA1", "ok")>>
    /\ ret.found /\ ret.record.status = "completed" /\ ret.record.ended
    /\ DOMAIN calls_cache = {"CA1"}

\* C29: create_call_record calls for distinct identifiers, in any interleaving,
\* each return a record with status in-progress for their own identifier,
\* every identifier has its own record, and get_active_calls_count returns the
\* number of calls created and not ended since.
C29_ConcurrentCreates ==
    /\ ret.op = "create_call_record" =>
          /\ ret.record.status = "in-progress"
          /\ ret.record.call_sid = ret.call_sid
    /\ \A c \in DbIds : Created(c) =>
          (c \in DOMAIN calls_cache /\ calls_cache[c].call_sid = c)
    /\ ret.op = "get_active_calls_count" =>
          ret.count = Cardinality({c \in DbIds : LastLifeOp(c) = "create_call_record"})

C29_Witness ==
    /\ Len(dbLog) = 4
    /\ \A c \in DbIds : LifeOps(c) = <<DbOp("create_call_record", c, "ok")>>
    /\ ret.op = "get_active_calls_count" /\ ret.count = 3

RECURSIVE DigitsOf(_)
DigitsOf(text) ==
    IF text = <<>> THEN <<>>
    ELSE IF Head(text) \in Digits THEN <<Head(text)>> \o DigitsOf(Tail(text))
    ELSE DigitsOf(Tail(text))

\* C30: sanitize_phone_number returns '+' followed by the digits of its input,
\* every other character removed, with 91 put in front exactly when there are
\* ten digits that do not start with 91; applied to its own result it returns
\* that result.
C30_SanitizePhone ==
    ret.op = "sanitize_phone_number" =>
        LET d == DigitsOf(phone)
            prefixed == Len(d) = 10 /\ ~(d[1] = "9" /\ d[2] = "1")
        IN  /\ ret.text = <<"+">> \o (IF prefixed THEN <<"9", "1">> ELSE <<>>) \o d
            /\ ret.again = ret.text

C30_Witness ==
    /\ ret.op = "sanitize_phone_number"
    /\ Len(phone) = 11 /\ phone[1] = "+" /\ phone[2] = "1"
    /\ Len(ret.text) = 13
    /\ SubSeq(ret.text, 1, 4) = <<"+", "9", "1", "1">>

OutputsFor(w, id) == {i \in 1..Len(sent[w]) : IsItem(sent[w][i]) /\ sent[w][i].call_id = id}

\* C31: for every tool-call event at most one function_call_output carrying
\* its call_id is written to the model stream, also when a send fails.
C31_AtMostOneOutput ==
    \A w \in Conns :
        \A k \in 1..Len(mEvents[w]) :
            IsToolCall(mEvents[w][k]) =>
                Cardinality(OutputsFor(w, mEvents[w][k].call_id)) <= 1

RelayActive(w, c) == hpc[w] = "gather" /\ call_sid[w] = c

\* C32: a handler's cleanup removes a registry entry only if that handler
\* created it: with the same call identifier started on two connections, the
\* handler that finishes first leaves the entry in place while the other
\* handler's relay loop is still active.
C32_CleanupRemovesOwnEntry ==
    [][\A w \in Conns :
          \A c \in CallIds :
              (hpc[w] = "finally" /\ hpc'[w] = "closed"
                  /\ Registered(c) /\ c \notin DOMAIN active_sessions')
                  => /\ active_sessions[c].openai_session_id = w
                     /\ \A v \in Conns \ {w} : ~RelayActive(v, c)]_vars

AllHandlersFinished == \A w \in Conns : hpc[w] = "closed"

\* C33: once every media-stream handler has finished the registry is empty,
\* for any sequence of telephony frames, including a connection that delivers
\* start frames with different call identifiers.
C33_RegistryEmptyAtEnd ==
    AllHandlersFinished => active_sessions = EmptyDict

RunningCalls == {w \in Conns : hpc[w] # "closed" /\ call_sid[w] # NoneVal}

\* C34: when a handler that processed start has finished, on any termination
\* path, the call record of its call has status completed, and
\* get_active_calls_count never exceeds the number of calls whose handler is
\* still running.
C34_FinishedCallCompleted ==
    /\ \A w \in Conns :
          (hpc[w] = "closed" /\ call_sid[w] # NoneVal
              /\ call_sid[w] \in DOMAIN calls_cache)
              => calls_cache[call_sid[w]].status = "completed"
    /\ get_active_calls_count(calls_cache) <= Cardinality(RunningCalls)

IsStartFrame(f) == f.event = "start"
StartsOn(w) == SelectSeq(tFrames[w], IsStartFrame)

\* C35: every outbound media frame written to telephony carries a non-null
\* stream identifier, the one of the most recent start frame received on the
\* connection; nothing is written before a start frame has been processed.
C35_OutboundCarriesStream ==
    [][\A w \in Conns :
          twOut'[w] # twOut[w] =>
              /\ StartsOn(w) # <<>>
              /\ Len(twOut'[w]) = Len(twOut[w]) + 1
              /\ SubSeq(twOut'[w], 1, Len(twOut[w])) = twOut[w]
              /\ Last(twOut'[w]).streamSid # NoneVal
              /\ Last(twOut'[w]).streamSid = Last(StartsOn(w)).streamSid]_vars

C35_Witness ==
    \E w \in Conns :
        /\ tFrames[w] = <<StartFrame("CA1"), StartFrame("CA2")>>
        /\ mEvents[w] = <<AudioDelta("D1")>>
        /\ Len(twOut[w]) = 1
        /\ twOut[w][1].streamSid = StreamOf("CA2")

Count(s, x) == Cardinality({i \in 1..Len(s) : s[i] = x})
StartsFor(c) ==
    Cardinality({<<w, i>> \in Conns \X (1..MaxInputs + 1) :
                    i <= Len(tFrames[w]) /\ IsStartFrame(tFrames[w][i])
                        /\ tFrames[w][i].callSid = c})

\* C36: duration/cost accounting and registry removal for a call happen
\* together and at most once per registration, also when the shutdown loop
\* and the handler's finally block both call cleanup_session for the same
\* call identifier, in either order: the second call finds the identifier
\* absent and does nothing.
C36_CleanupOnce ==
    [][\A c \in CallIds :
          /\ Count(accounted', c) - Count(accounted, c) =
                IF Registered(c) /\ c \notin DOMAIN active_sessions' THEN 1 ELSE 0
          /\ Count(accounted', c) <= StartsFor(c)']_vars

C36_Witness ==
    /\ shutdown
    /\ hpc["w1"] = "closed" /\ call_sid["w1"] = "CA1" /\ cleanups["w1"] = 1
    /\ StartsFor("CA1") = 1
    /\ accounted = <<"CA1">>
    /\ ~Registered("CA1")

\* C37: every tool dispatch is performed with the call identifier of a session
\* that is in the registry at that moment: execute_tool is never invoked with
\* a null call identifier, and no ticket or transfer request is stored with
\* one.
C37_DispatchHasRegisteredCall ==
    [][\A w \in Conns :
          dispatched'[w] # dispatched[w] =>
              /\ call_sid[w] # NoneVal
              /\ Registered(call_sid[w])
              /\ \A t \in DOMAIN tickets_cache' : tickets_cache'[t].call_sid # NoneVal]_vars

TicketCreations ==
    Cardinality({i \in 1..Len(dbLog) :
                    dbLog[i].op \in {"create_support_ticket", "create_transfer_request"}
                        /\ dbLog[i].outcome = "ok"})

\* C38: every ticket is stored under an identifier no earlier ticket has:
\* a creation never overwrites a stored ticket, so as many tickets are stored
\* as were created, also when two are created in the same clock second.
C38_TicketsNeverOverwritten ==
    Cardinality(DOMAIN tickets_cache) = TicketCreations

WrapperEnded == retry.status \in {"returned", "raised"}
SleepsAfter(n) == [k \in 1..n |-> retry.base_delay * (2 ^ (k - 1))]

\* what holds of a wrapper call with max_retries >= 1 (C39)
RetryPolicy ==
    /\ retry.calls <= retry.max_retries
    /\ WrapperEnded => retry.calls >= 1
    /\ retry.status = "loop" =>
          /\ retry.calls = Len(retry.errors)
          /\ retry.sleeps = SleepsAfter(retry.calls)
    /\ retry.status = "returned" =>
          /\ retry.result \in ReturnValues
          /\ Len(retry.errors) = retry.calls - 1
          /\ retry.sleeps = SleepsAfter(retry.calls - 1)
    /\ retry.status = "raised" =>
          /\ retry.calls = retry.max_retries
          /\ Len(retry.errors) = retry.max_retries
          /\ retry.result = Last(retry.errors)
          /\ retry.sleeps = SleepsAfter(retry.max_retries - 1)

\* C39 (as stated): a function wrapped by retry_with_backoff(max_retries,
\* base_delay) is invoked at most max_retries times and at least once; the
\* wrapper returns the first successful attempt's result without further
\* attempts, sleeps base_delay * 2^k after the k-th failed attempt only when
\* another attempt follows, and re-raises the last exception after
\* max_retries failures.
C39_RetryAsStated ==
    retry.status # "idle" => RetryPolicy

\* C39 (amended): the above holds when max_retries >= 1; with max_retries = 0
\* the wrapped function is never invoked, nothing is slept or raised, and the
\* wrapper returns None.
C39_RetryWithBackoff ==
    retry.status # "idle" =>
        IF retry.max_retries >= 1
        THEN RetryPolicy
        ELSE /\ retry.calls = 0 /\ retry.sleeps = <<>> /\ retry.errors = <<>>
             /\ retry.status # "raised"
             /\ retry.status = "returned" => retry.result = NoneVal

C39_Witness ==
    /\ retry.status = "raised"
    /\ retry.max_retries = 4 /\ retry.base_delay = 3
    /\ retry.calls = 4
    /\ retry.errors = <<"e1", "e1", "e1", "e2">>
    /\ retry.result = "e2"
    /\ retry.sleeps = <<3, 6, 12>>

====
